---- MODULE Spec2Model ----
(***************************************************************************)
(* A model of the Downloader of go-ipipnet-downloader (src/downloader.go). *)
(*                                                                         *)
(* src/downloader.go holds two definitions of the package: the first one   *)
(* (lines 1-161) checks the remote ETag with a HEAD request and writes the *)
(* data file in place; the second one (lines 163-319) reads the ETag of    *)
(* the GET response and writes through LocalPath + ".tmp".  The variable   *)
(* ver, fixed by Init, says which of the two is running.                   *)
(*                                                                         *)
(* The caller is process 0 (EnsureLocal, StartWatch, StopWatch); every     *)
(* "go d.watchLocal()" / "go d.watchRemote()" is a process 1..MaxTasks.    *)
(* Every file-system or network operation of download is one step, so that *)
(* the environment (the server, whoever edits the local files) and the     *)
(* other goroutines interleave with it.                                    *)
(***************************************************************************)
EXTENDS Integers, FiniteSets, TLC

\* ---------------------------------------------------------------- bounds
MaxVer   == 2      \* versions the server publishes: 1..MaxVer
MaxTasks == 2      \* goroutines StartWatch may have launched and not yet ended
MaxMTime == 2      \* modifications of the local file by its external writer

\* ---------------------------------------------------------------- values
NoFile  == -1      \* the path does not exist (os.Stat / ReadFile return an error)
Partial == -2      \* a file a failed write left truncated or half written
NoETag  == 0       \* the empty string: Header.Get("ETag") of a response without it
Empty   == 0       \* the empty body (of a 404 response), the empty file

Caller == 0
Tasks  == 1..MaxTasks
Procs  == {Caller} \cup Tasks

Versions  == 1..MaxVer
Intervals == {-1, 0, 1}     \* negative, zero, positive time.Duration
Modes     == {"ok", "noetag", "notfound", "down"}

VARIABLES
  ver,        \* 1: lines 1-161 of downloader.go, 2: lines 163-319
  RemoteURL,  \* "" or "url"
  Interval,
  CheckETag,
  etag,       \* d.etag
  watching,   \* d.watching
  dataFile,   \* content of LocalPath, NoFile, or Partial
  etagFile,   \* content of LocalPath + ".etag", or NoFile
  tmpFile,    \* content of LocalPath + ".tmp", or NoFile
  mtime,      \* modification time of LocalPath as watchLocal reads it
  srvMode,    \* testServer: "ok", "noetag" (useEtag false), "notfound", "down"
  srvVer,     \* the version served: content srvVer, ETag srvVer
  pc,         \* where each process is
  resp,       \* the response each process holds: [etag, body]
  ts,         \* watchLocal's baseline timestamp
  call,       \* history: the state EnsureLocal was called in, and its error
  lastTok,    \* history: the server's ETag the only task alive saw last
  same,       \* history: this cycle's ETag equals the previous cycle's
  lastUpd,    \* history: the mtime a local task last raised an update for
  stopped     \* history: StopWatch was called since the task was launched

cfg    == <<ver, RemoteURL, Interval, CheckETag>>
files  == <<dataFile, etagFile, tmpFile>>
server == <<srvMode, srvVer>>
hist   == <<lastTok, same, lastUpd, stopped>>
vars   == <<ver, RemoteURL, Interval, CheckETag, etag, watching, dataFile, etagFile,
            tmpFile, mtime, srvMode, srvVer, pc, resp, ts, call, lastTok, same,
            lastUpd, stopped>>

NoResp == [etag |-> NoETag, body |-> Empty]
NoCall == [active |-> FALSE, quiet |-> FALSE, data |-> NoFile, etagf |-> NoFile,
           tmp |-> NoFile, etag |-> NoETag, mode |-> "ok", sver |-> 1, ret |-> "none",
           net |-> FALSE]
Noisy  == [NoCall EXCEPT !.active = TRUE, !.ret = "running"]

Alive(t)  == pc[t] \notin {"free", "panic"}
AliveSet  == {t \in Tasks : Alive(t)}
\* a nil-pointer panic in a goroutine ends the whole process
crashed   == \E t \in Tasks : pc[t] = "panic"

\* ------------------------------------------------------------ the server
\* testServer.ServeHTTP: 404 without header or body when notFound; the ETag
\* header only when useEtag; then the content.
ServedETag == IF srvMode = "ok" THEN srvVer ELSE NoETag
ServedBody == IF srvMode = "notfound" THEN Empty ELSE srvVer
Response   == [etag |-> ServedETag, body |-> ServedBody]
Reachable  == srvMode # "down"

\* --------------------------------------------------------------- history
\* What EnsureLocal was called in, what it returned (ret: "running" until it
\* returns, then "nil" or the error) and whether it sent a request (net).  The
\* record is forgotten as soon as anything happens after the call returned, and
\* is marked not quiet when the environment acts during the call.
Snapshot(err) == [active |-> TRUE, quiet |-> TRUE, data |-> dataFile,
                  etagf |-> etagFile, tmp |-> tmpFile, etag |-> etag,
                  mode |-> srvMode, sver |-> srvVer, ret |-> err, net |-> FALSE]
Disturbed == IF call.active /\ pc[Caller] # "idle" THEN Noisy ELSE NoCall
\* the labels at which a process sends a request
Requests == {"head", "get"}
CallOf(p) == IF p = Caller THEN [call EXCEPT !.net = @ \/ pc[p] \in Requests]
             ELSE Disturbed

\* ------------------------------------------------------------------ Init
Init ==
  /\ ver \in {1, 2}
  /\ RemoteURL \in {"", "url"}
  /\ Interval \in Intervals
  /\ CheckETag \in BOOLEAN
  /\ etag = NoETag
  /\ watching = FALSE
  /\ dataFile \in {NoFile, 1}
  /\ etagFile \in {NoFile, 1}
  /\ tmpFile = NoFile
  /\ mtime = 0
  /\ srvMode \in Modes
  /\ srvVer = 1
  /\ pc = [p \in Procs |-> IF p = Caller THEN "idle" ELSE "free"]
  /\ resp = [p \in Procs |-> NoResp]
  /\ ts = [t \in Tasks |-> 0]
  /\ call = NoCall
  /\ lastTok = -1
  /\ same = FALSE
  /\ lastUpd = -1
  /\ stopped = [t \in Tasks |-> FALSE]

\* ------------------------------------------------------------ the caller
\* os.Stat(d.LocalPath) returns no error
StatOK(f) == f # NoFile

\* EnsureLocal dropping the error of ioutil.ReadFile (a faulty variant)
LoadResult_Unchecked == "nil"

\* EnsureLocal with the local file present: the error it returns
LoadResult == IF CheckETag /\ etagFile = NoFile THEN "load etag fail" ELSE "nil"
\* EnsureLocal not storing the ETag it read in d.etag (a faulty variant)
LoadedETag_NotStored == etag

\* EnsureLocal with the local file present: d.etag afterwards
LoadedETag == IF CheckETag /\ etagFile # NoFile THEN etagFile ELSE etag

\* the first request of download: HEAD when the first definition checks the
\* ETag, GET otherwise
FirstRequest == IF ver = 1 /\ CheckETag THEN "head" ELSE "get"

\* EnsureLocal, up to its first network request.  It is called before the watch
\* is started (doc.go): no task is alive.
EnsureLocal ==
  /\ ~crashed
  /\ pc[Caller] = "idle"
  /\ AliveSet = {}
  /\ IF StatOK(dataFile)
     THEN /\ call' = Snapshot(LoadResult)
          /\ etag' = LoadedETag
          /\ pc' = pc
     ELSE IF RemoteURL = ""
     THEN /\ call' = Snapshot("remote url is unset")
          /\ etag' = etag
          /\ pc' = pc
     ELSE /\ call' = Snapshot("running")
          /\ etag' = etag
          /\ pc' = [pc EXCEPT ![Caller] = FirstRequest]
  /\ UNCHANGED <<cfg, watching, files, mtime, server, resp, ts, hist>>

\* the guard of StartWatch: the second definition has none
WatchRefused == ver = 1 /\ Interval <= 0

FreeSlots == {t \in Tasks : pc[t] = "free"}
FirstFree == CHOOSE t \in FreeSlots : \A u \in FreeSlots : t <= u

\* The caller keeps its obligation: no StartWatch while watching.
StartWatch ==
  /\ ~crashed
  /\ pc[Caller] = "idle"
  /\ ~watching
  /\ call' = NoCall
  /\ IF WatchRefused
     THEN UNCHANGED <<watching, pc, ts, hist>>
     ELSE /\ FreeSlots # {}
          /\ watching' = TRUE
          /\ pc' = [pc EXCEPT ![FirstFree] = IF RemoteURL = "" THEN "watchLocal" ELSE "loop"]
          /\ ts' = ts
          /\ lastTok' = -1
          /\ same' = FALSE
          /\ lastUpd' = -1
          /\ stopped' = stopped
  /\ UNCHANGED <<cfg, etag, files, mtime, server, resp>>

StopWatch ==
  /\ ~crashed
  /\ pc[Caller] = "idle"
  /\ call' = NoCall
  /\ watching' = FALSE
  /\ stopped' = [t \in Tasks |-> stopped[t] \/ Alive(t)]
  /\ UNCHANGED <<cfg, etag, files, mtime, server, pc, resp, ts, lastTok, same,
                 lastUpd>>

\* ------------------------------------------------------- the watch tasks
\* watchLocal before its loop: info, _ := os.Stat(path); ts := info.ModTime().
\* With the file missing info is nil and info.ModTime() panics.
WatchLocalInit(t) ==
  /\ ~crashed
  /\ pc[t] = "watchLocal"
  /\ IF StatOK(dataFile)
     THEN /\ ts' = [ts EXCEPT ![t] = mtime]
          /\ pc' = [pc EXCEPT ![t] = "loop"]
     ELSE /\ ts' = ts
          /\ pc' = [pc EXCEPT ![t] = "panic"]
  /\ call' = Disturbed
  /\ UNCHANGED <<cfg, etag, watching, files, mtime, server, resp, hist>>

\* watchLocal comparing with "not before" instead of After (a faulty variant)
LocalBody_NotStrict(t) == IF ~StatOK(dataFile) THEN "onError"
                          ELSE IF mtime >= ts[t] THEN "onUpdate"
                          ELSE "loop"

\* the loop body of watchLocal: which callback it raises, if any
LocalBody(t) == IF ~StatOK(dataFile) THEN "onError"
                ELSE IF mtime > ts[t] THEN "onUpdate"
                ELSE "loop"

\* "for d.watching {": the task wakes from time.Sleep and reads d.watching;
\* watchLocal then stats the file, watchRemote calls download.
Loop(t) ==
  /\ ~crashed
  /\ pc[t] = "loop"
  /\ pc' = [pc EXCEPT ![t] = IF ~watching THEN "free"
                             ELSE IF RemoteURL = "" THEN LocalBody(t)
                             ELSE FirstRequest]
  /\ IF watching
     THEN /\ lastUpd' = IF pc'[t] = "onUpdate" THEN mtime ELSE lastUpd
          /\ UNCHANGED <<ts, lastTok, same, stopped>>
     ELSE /\ ts' = [ts EXCEPT ![t] = 0]
          /\ stopped' = [stopped EXCEPT ![t] = FALSE]
          /\ lastTok' = -1
          /\ same' = FALSE
          /\ lastUpd' = -1
  /\ call' = Disturbed
  /\ UNCHANGED <<cfg, etag, watching, files, mtime, server, resp>>

\* d.onUpdate() / d.onError(err) return; the task goes to time.Sleep
CallbackReturn(t) ==
  /\ ~crashed
  /\ pc[t] \in {"onUpdate", "onError"}
  /\ pc' = [pc EXCEPT ![t] = "loop"]
  /\ same' = FALSE
  /\ lastTok' = (IF pc[t] = "onError" THEN -1 ELSE lastTok)
  /\ call' = Disturbed
  /\ UNCHANGED <<cfg, etag, watching, files, mtime, server, resp, ts, lastUpd, stopped>>

\* --------------------------------------------------------------- download
\* Where a process goes when download returns err: EnsureLocal returns to the
\* caller (lines 53-56); watchRemote raises nothing on errNotModified, onError on
\* any other error and onUpdate on nil (lines 94-100).
AfterDownload(p, err) ==
  IF p = Caller THEN "idle"
  ELSE IF err = "not modified" THEN "loop"
  ELSE IF err # "nil" THEN "onError"
  ELSE "onUpdate"

\* download returns err
Return(p, err) ==
  /\ resp' = [resp EXCEPT ![p] = NoResp]
  /\ pc' = [pc EXCEPT ![p] = AfterDownload(p, err)]
  /\ call' = IF p = Caller THEN [CallOf(p) EXCEPT !.ret = err] ELSE Disturbed

\* download goes on at label l, holding response r
Goto(p, l, r) ==
  /\ resp' = [resp EXCEPT ![p] = r]
  /\ pc' = [pc EXCEPT ![p] = l]
  /\ call' = CallOf(p)

\* history: the ETag the only task alive read from the server last, forgotten
\* when a cycle ends in an error
Seen(p, tok) == IF AliveSet = {p} THEN tok ELSE -1

\* history: the check of a cycle reads the ETag the previous cycle read last; a
\* cycle that ends without a callback leaves same FALSE
Observe(p, tok) ==
  /\ lastTok' = Seen(p, tok)
  /\ same' = (AliveSet = {p} /\ lastTok = tok /\ pc'[p] # "loop")

\* download dropping the error of http.Get (a faulty variant)
GetError_Ignored == "nil"

\* http.Head / http.Get return an error
HeadError == IF Reachable THEN "nil" ELSE "check remote modification fail"
GetError == IF Reachable THEN "nil" ELSE "download fail"

\* checkRemoteModification without its test of an empty ETag (a faulty variant)
CheckModified_EmptyAccepted(tok) ==
  IF etag = tok THEN "not modified" ELSE "get"

\* the outcome of checkRemoteModification and of the branch of download on it,
\* with the server reachable: an error, or "get" to go on to the full request
CheckModified(tok) ==
  IF tok = NoETag THEN "no etag"
  ELSE IF etag = tok THEN "not modified"
  ELSE "get"

\* checkRemoteModification (http.Head) and the branch of download on its result
Head(p) ==
  /\ ~crashed
  /\ ver = 1
  /\ pc[p] = "head"
  /\ IF HeadError # "nil"
     THEN Return(p, HeadError) /\ UNCHANGED <<lastTok, same>>
     ELSE /\ IF CheckModified(ServedETag) = "get"
             THEN Goto(p, "get", resp[p])
             ELSE Return(p, CheckModified(ServedETag))
          /\ Observe(p, ServedETag)
  /\ UNCHANGED <<cfg, etag, watching, files, mtime, server, ts, lastUpd, stopped>>

\* first definition: http.Get and ioutil.ReadAll of the body
Get1(p) ==
  /\ ~crashed
  /\ ver = 1
  /\ pc[p] = "get"
  /\ IF GetError # "nil"
     THEN Return(p, GetError) /\ lastTok' = lastTok
     ELSE \E interrupted \in BOOLEAN :
            /\ IF interrupted
               THEN Return(p, "read response body fail")
               ELSE Goto(p, "wdata", Response)
            /\ lastTok' = Seen(p, ServedETag)
  /\ UNCHANGED <<cfg, etag, watching, files, mtime, server, ts, same, lastUpd, stopped>>

\* ioutil.WriteFile(path, ...) that fails: at the open the file is as it was,
\* after the open it is truncated or half written
FailedWrite(old) == {old, Partial}

\* first definition: ioutil.WriteFile(d.LocalPath, content, 0755)
WriteData(p) ==
  /\ ~crashed
  /\ ver = 1
  /\ pc[p] = "wdata"
  /\ \E ok \in BOOLEAN :
       IF ok
       THEN /\ dataFile' = resp[p].body
            /\ Goto(p, "wetag", resp[p])
       ELSE /\ dataFile' \in FailedWrite(dataFile)
            /\ Return(p, "save local file fail")
  /\ UNCHANGED <<cfg, etag, watching, etagFile, tmpFile, mtime, server, ts, hist>>

\* the outcome of the branches of the second download on the response: an
\* error, or "open" to go on to saveStreamToFile
CheckResponse(tok) ==
  IF ~CheckETag THEN "open"
  ELSE IF tok = NoETag THEN "no etag"
  ELSE IF tok = etag THEN "not modified"
  ELSE "open"

\* second definition: http.Get and the branches on CheckETag and on the ETag
Get2(p) ==
  /\ ~crashed
  /\ ver = 2
  /\ pc[p] = "get"
  /\ IF GetError # "nil"
     THEN Return(p, GetError) /\ UNCHANGED <<lastTok, same>>
     ELSE /\ IF CheckResponse(ServedETag) = "open"
             THEN Goto(p, "open", Response)
             ELSE Return(p, CheckResponse(ServedETag))
          /\ IF CheckETag
             THEN Observe(p, ServedETag)
             ELSE UNCHANGED <<lastTok, same>>
  /\ UNCHANGED <<cfg, etag, watching, files, mtime, server, ts, lastUpd, stopped>>

\* saveStreamToFile: os.OpenFile(tempPath, O_WRONLY|O_CREATE): an existing
\* file is opened as it is, not truncated
OpenTemp(p) ==
  /\ ~crashed
  /\ ver = 2
  /\ pc[p] = "open"
  /\ \E ok \in BOOLEAN :
       IF ok
       THEN /\ tmpFile' = IF tmpFile = NoFile THEN Empty ELSE tmpFile
            /\ Goto(p, "copy", resp[p])
       ELSE /\ tmpFile' = tmpFile
            /\ Return(p, "save local file fail")
  /\ UNCHANGED <<cfg, etag, watching, dataFile, etagFile, mtime, server, ts, hist>>

\* what a file opened without O_TRUNC holds after new was written from its
\* start: the rest of a longer old content stays behind it
Overwritten(old, new) ==
  IF new = Empty THEN {old}
  ELSE IF old \in {Empty, new} THEN {new}
  ELSE {new, Partial}

\* saveStreamToFile: io.Copy(file, r); on error file.Close, os.Remove(tempPath).
\* A temp file another task removed or renamed meanwhile is written through the
\* open descriptor: the path stays absent.
CopyBody(p) ==
  /\ ~crashed
  /\ ver = 2
  /\ pc[p] = "copy"
  /\ \E ok \in BOOLEAN :
       IF ok
       THEN /\ tmpFile' \in (IF tmpFile = NoFile THEN {NoFile}
                             ELSE Overwritten(tmpFile, resp[p].body))
            /\ Goto(p, "rename", resp[p])
       ELSE /\ tmpFile' = NoFile
            /\ Return(p, "save local file fail")
  /\ UNCHANGED <<cfg, etag, watching, dataFile, etagFile, mtime, server, ts, hist>>

\* saveStreamToFile: file.Close, os.Rename(tempPath, path) with its error
\* dropped, and the return of download when CheckETag is false
RenameTemp(p) ==
  /\ ~crashed
  /\ ver = 2
  /\ pc[p] = "rename"
  /\ IF tmpFile # NoFile
     THEN dataFile' = tmpFile /\ tmpFile' = NoFile
     ELSE UNCHANGED <<dataFile, tmpFile>>
  /\ IF ~CheckETag
     THEN Return(p, "nil")
     ELSE Goto(p, "wetag", resp[p])
  /\ UNCHANGED <<cfg, etag, watching, etagFile, mtime, server, ts, hist>>

\* a failed write of the one-token ETag file leaves it as it was or empty
FailedETagWrite(old) == {old, Empty}

\* ioutil.WriteFile(d.LocalPath+".etag", etag, 0755); the second definition
\* returns nil after it, the first goes on to set d.etag
WriteETag(p) ==
  /\ ~crashed
  /\ pc[p] = "wetag"
  /\ \E ok \in BOOLEAN :
       IF ok
       THEN /\ etagFile' = resp[p].etag
            /\ IF ver = 1
               THEN Goto(p, "setetag", resp[p])
               ELSE Return(p, "nil")
       ELSE /\ etagFile' \in FailedETagWrite(etagFile)
            /\ Return(p, "save local etag file fail")
  /\ UNCHANGED <<cfg, etag, watching, dataFile, tmpFile, mtime, server, ts, hist>>

\* first definition: d.etag = resp.Header.Get("ETag"); return nil
SetETag(p) ==
  /\ ~crashed
  /\ ver = 1
  /\ pc[p] = "setetag"
  /\ etag' = resp[p].etag
  /\ Return(p, "nil")
  /\ UNCHANGED <<cfg, watching, files, mtime, server, ts, hist>>

\* ------------------------------------------------------- the environment
\* server.content / server.etag change
ServerPublish ==
  /\ \E v \in Versions \ {srvVer} : srvVer' = v
  /\ call' = Disturbed
  /\ UNCHANGED <<cfg, etag, watching, files, mtime, srvMode, pc, resp, ts, hist>>

\* server.hide / server.show, useEtag, the server going down or coming back
ServerMode ==
  /\ \E m \in Modes \ {srvMode} : srvMode' = m
  /\ call' = Disturbed
  /\ UNCHANGED <<cfg, etag, watching, files, mtime, srvVer, pc, resp, ts, hist>>

\* the external writer of a locally watched file rewrites it
ModifyLocal ==
  /\ RemoteURL = ""
  /\ mtime < MaxMTime
  /\ mtime' = mtime + 1
  /\ \E v \in Versions : dataFile' = v
  /\ call' = Disturbed
  /\ UNCHANGED <<cfg, etag, watching, etagFile, tmpFile, server, pc, resp, ts, hist>>

\* os.Remove of the data file, of the ETag file
RemoveData ==
  /\ dataFile # NoFile
  /\ dataFile' = NoFile
  /\ call' = Disturbed
  /\ UNCHANGED <<cfg, etag, watching, etagFile, tmpFile, mtime, server, pc, resp, ts,
                 hist>>

RemoveETag ==
  /\ etagFile # NoFile
  /\ etagFile' = NoFile
  /\ call' = Disturbed
  /\ UNCHANGED <<cfg, etag, watching, dataFile, tmpFile, mtime, server, pc, resp, ts,
                 hist>>

\* ------------------------------------------------------------------ Next
Next ==
  \/ EnsureLocal
  \/ StartWatch
  \/ StopWatch
  \/ \E t \in Tasks : WatchLocalInit(t)
  \/ \E t \in Tasks : Loop(t)
  \/ \E t \in Tasks : CallbackReturn(t)
  \/ \E p \in Procs : Head(p)
  \/ \E p \in Procs : Get1(p)
  \/ \E p \in Procs : WriteData(p)
  \/ \E p \in Procs : Get2(p)
  \/ \E p \in Procs : OpenTemp(p)
  \/ \E p \in Procs : CopyBody(p)
  \/ \E p \in Procs : RenameTemp(p)
  \/ \E p \in Procs : WriteETag(p)
  \/ \E p \in Procs : SetETag(p)
  \/ ServerPublish
  \/ ServerMode
  \/ ModifyLocal
  \/ RemoveData
  \/ RemoveETag

Spec == Init /\ [][Next]_vars

\* The caller alone: EnsureLocal called again and again on an instance whose
\* watch is never started, with the environment.
NextEnsure ==
  \/ EnsureLocal
  \/ Head(Caller)
  \/ Get1(Caller)
  \/ WriteData(Caller)
  \/ Get2(Caller)
  \/ OpenTemp(Caller)
  \/ CopyBody(Caller)
  \/ RenameTemp(Caller)
  \/ WriteETag(Caller)
  \/ SetETag(Caller)
  \/ ServerPublish
  \/ ServerMode
  \/ ModifyLocal
  \/ RemoveData
  \/ RemoveETag

SpecEnsure == Init /\ [][NextEnsure]_vars

\* ================================================================ claims
\* EnsureLocal has just returned (nothing has happened since)
Returned == call.active /\ pc[Caller] = "idle"

\* the errors of a transfer cut short or of a failed write to the disk
Faults == {"read response body fail", "save local file fail",
           "save local etag file fail"}

\* C1: whenever EnsureLocal is called with no local file, with CheckETag set and
\* a remote that serves content C with a non-empty ETag T, and nothing fails or
\* changes during the call, it returns nil and leaves C in the data file and T in
\* the ETag file.
C1_EnsureLocalDownloads ==
  (/\ Returned /\ call.quiet
   /\ RemoteURL # "" /\ CheckETag
   /\ call.data = NoFile
   /\ call.mode = "ok"
   /\ call.ret \notin Faults)
  => (call.ret = "nil" /\ dataFile = call.sver /\ etagFile = call.sver)

\* C2: EnsureLocal called with the data file and the ETag file present returns
\* nil, sends no request, leaves the three files as they were, and leaves in
\* d.etag what the ETag file holds (what d.etag held, without CheckETag): a
\* second call changes nothing.
C2_PresentIsNoOp ==
  (Returned /\ call.data # NoFile /\ call.etagf # NoFile)
  => /\ call.ret = "nil"
     /\ ~call.net
     /\ dataFile = call.data /\ etagFile = call.etagf /\ tmpFile = call.tmp
     /\ etag = (IF CheckETag THEN call.etagf ELSE call.etag)
     /\ (call.etag = call.etagf => etag = call.etag)

\* a second EnsureLocal on present files, the ETag already loaded
C2_Witness ==
  /\ Returned /\ CheckETag
  /\ call.data # NoFile /\ call.etagf # NoFile
  /\ call.etag = call.etagf /\ call.etag # NoETag
  /\ call.ret = "nil"

\* C3: EnsureLocal called with CheckETag set, the data file present and the ETag
\* file missing returns the load error, sends no request, and leaves the files
\* and d.etag as they were.
C3_MissingETagFileFails ==
  (Returned /\ CheckETag /\ call.data # NoFile /\ call.etagf = NoFile)
  => /\ call.ret = "load etag fail"
     /\ ~call.net
     /\ dataFile = call.data /\ etagFile = NoFile /\ tmpFile = call.tmp
     /\ etag = call.etag

\* the ETag file was removed after an EnsureLocal that loaded it
C3_Witness ==
  /\ Returned /\ CheckETag /\ RemoteURL # ""
  /\ call.data # NoFile /\ call.etagf = NoFile
  /\ call.etag # NoETag
  /\ call.ret = "load etag fail"

\* C4: EnsureLocal called with none of the three files present and the remote
\* unreachable for the whole call returns an error and leaves none of the three
\* files behind.
C4_UnreachableLeavesNothing ==
  (/\ Returned /\ call.quiet
   /\ call.data = NoFile /\ call.etagf = NoFile /\ call.tmp = NoFile
   /\ call.mode = "down")
  => /\ call.ret \notin {"nil", "none", "running"}
     /\ dataFile = NoFile /\ etagFile = NoFile /\ tmpFile = NoFile

\* the request was sent and failed
C4_Witness ==
  /\ Returned /\ call.quiet /\ call.net
  /\ call.data = NoFile /\ call.etagf = NoFile /\ call.tmp = NoFile
  /\ call.mode = "down"
  /\ call.ret \in {"download fail", "check remote modification fail"}

\* the labels of a task inside a notification callback
Callbacks == {"onUpdate", "onError"}
\* the labels of a process inside download
Fetching == {"head", "get", "wdata", "open", "copy", "rename", "wetag", "setetag"}

\* C5: with a non-positive Interval the instance never watches: watching stays
\* false, no polling task is ever launched and so no callback is ever invoked.
C5_NonPositiveNeverWatches ==
  Interval <= 0 => (~watching /\ \A t \in Tasks : pc[t] = "free")

\* C6: in remote-watch mode with CheckETag set, the only polling task raises no
\* update in a cycle whose ETag is the one it read in the previous cycle, that
\* cycle having ended without an error.
C6_UnchangedETagNoUpdate ==
  \A t \in Tasks :
    (RemoteURL # "" /\ CheckETag /\ pc[t] = "onUpdate") => ~same

\* C7: in local-watch mode a polling task raises one update for one modification
\* of the file: it never raises an update for the modification time an update
\* was already raised for.
C7_OneUpdatePerModification ==
  [][\A t \in Tasks :
       (RemoteURL = "" /\ pc[t] = "loop" /\ pc'[t] = "onUpdate") => lastUpd # mtime]_vars

\* C8: a polling task that wakes up after a StopWatch called since its launch
\* terminates, whatever the caller called in between.
C8_StopEndsTask ==
  [][\A t \in Tasks :
       (stopped[t] /\ pc[t] = "loop" /\ pc'[t] # "loop") => pc'[t] = "free"]_vars

\* C9: the caller never calling StartWatch while watching, at most one polling
\* task is alive at any time, and so at most one is inside a callback.
C9_SinglePollingTask ==
  /\ Cardinality(AliveSet) <= 1
  /\ Cardinality({t \in Tasks : pc[t] \in Callbacks}) <= 1

\* C10: the data file never holds partially written content, and whenever no
\* fetch is under way the transient file does not exist.
C10_AtomicReplace ==
  /\ dataFile # Partial
  /\ (\A p \in Procs : pc[p] \notin Fetching) => tmpFile = NoFile

\* C11: a polling task ends only after a StopWatch called since its launch: a
\* failed cycle does not end it.  The task leaves a fetch for its sleep or for a
\* callback, and comes back from the error callback to its sleep, to poll again.
C11_EndsOnlyAfterStop ==
  [][\A t \in Tasks :
       /\ (Alive(t) /\ pc'[t] \in {"free", "panic"}) => stopped[t]
       /\ (pc[t] \in Fetching /\ pc'[t] \notin Fetching)
            => pc'[t] \in {"loop"} \cup Callbacks
       /\ (pc[t] = "onError" /\ pc'[t] # "onError") => pc'[t] = "loop"]_vars

\* C12: with CheckETag false no step sends the HEAD request, none changes
\* d.etag, and the ETag file is written by nobody: it stays as it is until its
\* owner removes it.
C12_NoETagWithoutCheck ==
  [][~CheckETag =>
       /\ \A p \in Procs : pc'[p] # "head"
       /\ etag' = etag
       /\ etagFile' \in {etagFile, NoFile}]_vars

\* C13: whenever the ETag file holds a token T and the data file exists, the
\* data file holds a whole content the server served under a token: the one of T
\* or of a later token, never a truncated file and never the body of an answer
\* that carried no content.  (The order of the tokens is left out: this is what
\* the claim says of the data file whatever that order is.)
C13_ETagFileNotAhead ==
  (RemoteURL # "" /\ etagFile \in Versions /\ dataFile # NoFile)
  => dataFile \in Versions

\* process p takes the step of download that reads the server's ETag for the
\* check against d.etag, and the server answers with the ETag d.etag holds
ChecksUnchanged(p) ==
  /\ CheckETag
  /\ pc[p] = FirstRequest
  /\ pc'[p] # pc[p]
  /\ Reachable
  /\ ServedETag # NoETag
  /\ ServedETag = etag

\* C14: with CheckETag set, a check that finds the server's ETag equal to d.etag
\* is a metadata request, no body comes with it; download returns "not
\* modified", the three files and d.etag stay as they were, and a polling task
\* goes to its sleep without a callback.
C14_NotModifiedIsSilent ==
  [][\A p \in Procs :
       ChecksUnchanged(p) =>
         /\ pc[p] = "head"
         /\ resp'[p] = NoResp
         /\ pc'[p] = (IF p = Caller THEN "idle" ELSE "loop")
         /\ (p = Caller => call'.ret = "not modified")
         /\ dataFile' = dataFile /\ etagFile' = etagFile /\ tmpFile' = tmpFile
         /\ etag' = etag]_vars

\* process p takes the step of download that reads the server's ETag for the
\* check against d.etag, and the server's answer carries no ETag
ChecksNoETag(p) ==
  /\ CheckETag
  /\ pc[p] = FirstRequest
  /\ pc'[p] # pc[p]
  /\ Reachable
  /\ ServedETag = NoETag

\* C15: with CheckETag set, a check that finds no ETag in the server's answer
\* ends download with the "no etag" error: no body is kept, the three files and
\* d.etag stay as they were, EnsureLocal returns the error, and a polling task
\* goes to the error callback.
C15_NoETagIsAnError ==
  [][\A p \in Procs :
       ChecksNoETag(p) =>
         /\ resp'[p] = NoResp
         /\ dataFile' = dataFile /\ etagFile' = etagFile /\ tmpFile' = tmpFile
         /\ etag' = etag
         /\ pc'[p] = (IF p = Caller THEN "idle" ELSE "onError")
         /\ (p = Caller => call'.ret = "no etag")]_vars

\* a polling task is in the error callback for the missing ETag it has just
\* read, the files being what the check found
C15_Witness ==
  \E t \in Tasks :
    /\ CheckETag /\ AliveSet = {t}
    /\ pc[t] = "onError"
    /\ srvMode = "noetag"
    /\ lastTok = NoETag
    /\ dataFile = 1 /\ etagFile = 1 /\ etag = 1

\* process p leaves the write of the ETag file with the error of that write
ETagWriteFails(p) ==
  /\ pc[p] = "wetag"
  /\ IF p = Caller THEN call'.ret = "save local etag file fail"
     ELSE pc'[p] = "onError"

\* C16: with CheckETag set, a fetch that has replaced the data file writes the
\* ETag file and then, the write done, stores the same ETag in d.etag: d.etag is
\* assigned by no other step of download.  When the write of the ETag file fails
\* download returns its error with d.etag as it was and the data file replaced
\* (by the body of the response, when nothing else touched the files).
C16_ETagFileThenETag ==
  [][CheckETag =>
       /\ \A p \in Procs :
            /\ ETagWriteFails(p) =>
                 /\ etag' = etag
                 /\ dataFile' = dataFile
                 /\ (p = Caller /\ call.quiet /\ call.tmp = NoFile)
                      => dataFile = resp[p].body
            /\ (pc[p] = "wetag" /\ pc'[p] # "wetag" /\ ~ETagWriteFails(p)) =>
                 /\ etagFile' = resp[p].etag
                 /\ pc'[p] = "setetag"
                 /\ etag' = etag
            /\ (pc[p] = "setetag" /\ pc'[p] # "setetag") => etag' = resp[p].etag
       /\ etag' # etag =>
            \/ \E p \in Procs : pc[p] = "setetag" /\ pc'[p] # "setetag"
            \/ pc[Caller] = "idle"]_vars

\* C17: in local-watch mode the baseline ts of a task is set by the first step
\* of the task and by no later one (the model clears it when the task has
\* ended); a cycle that finds the file raises an update when the modification
\* time is after ts, and none when it is not.
C17_BaselineCapturedOnce ==
  [][\A t \in Tasks :
       /\ ts'[t] # ts[t] => (pc[t] = "watchLocal" \/ pc'[t] = "free")
       /\ (RemoteURL = "" /\ pc[t] = "loop" /\ pc'[t] = "onUpdate")
            => (watching /\ StatOK(dataFile) /\ mtime > ts[t])
       /\ (RemoteURL = "" /\ Loop(t) /\ watching /\ StatOK(dataFile))
            => (pc'[t] = "onUpdate" <=> mtime > ts[t])]_vars

\* a second modification after the task started: the update is raised against
\* the baseline of the start
C17_Witness ==
  \E t \in Tasks :
    /\ RemoteURL = "" /\ pc[t] = "onUpdate"
    /\ ts[t] = 0 /\ mtime = 2 /\ lastUpd = mtime

\* C18: a request of download that the server answers with 404 ends download
\* with an error, with CheckETag set or not: the body of the answer is not kept
\* for the data file, EnsureLocal returns the error and a polling task goes to
\* the error callback.
C18_NotFoundIsAnError ==
  [][\A p \in Procs :
       (pc[p] \in Requests /\ pc'[p] # pc[p] /\ srvMode = "notfound") =>
         /\ resp'[p] = NoResp
         /\ pc'[p] = (IF p = Caller THEN "idle" ELSE "onError")
         /\ (p = Caller => call'.ret \notin {"nil", "running", "none"})]_vars

\* C19: with CheckETag set, when EnsureLocal has returned nil (the files loaded,
\* or fetched with nothing else touching them during the call) d.etag holds what
\* the ETag file holds, so that the first check of a polling task against an
\* unchanged server finds nothing modified.
C19_ETagEqualsETagFile ==
  (Returned /\ call.quiet /\ CheckETag /\ call.ret = "nil")
  => (etag = etagFile /\ (call.net => etag = call.sver))

\* C20: a local-watch task that does not find the file when it starts does not
\* abort: it goes on to its loop (to its sleep, or to the error callback for the
\* failed stat), and no task ever ends in a panic.
C20_MissingFileAtStart ==
  [][\A t \in Tasks :
       /\ pc'[t] # "panic"
       /\ (pc[t] = "watchLocal" /\ pc'[t] # pc[t] /\ ~StatOK(dataFile))
            => pc'[t] \in {"loop", "onError"}]_vars

====
